---- MODULE Spec2Model ----
(***************************************************************************)
(* Model of js/view-manager.js: class ViewManager.                         *)
(*                                                                         *)
(* JavaScript runs one task at a time, so every action below is one task   *)
(* of the event loop: a call of a public method together with the          *)
(* microtasks it queues, the completion of one network fetch together      *)
(* with the continuations awaiting it, or one click event.                 *)
(***************************************************************************)
EXTENDS Integers, Sequences, FiniteSets, TLC

(* ------------------------------ bounds --------------------------------- *)
\* miss-recovery fetches (line 171) issued in one behaviour
MaxFetches == 2
\* init() calls that have to fetch, in one behaviour of SpecBoot
MaxInits == 1
\* miss-recovery fetches issued in one behaviour of SpecBoot
MaxBootMisses == 0
\* components whose fetch did not deliver the component's markup, at one time,
\* in a behaviour of SpecBoot
MaxFaults == 1
\* direct children of the sidebar list at the time of a click
MaxItems == 2
\* fetches issued by direct calls of loadComponent in one behaviour of SpecLoad
MaxLoads == 3

(* ------------------------------ strings -------------------------------- *)
\* The characters of the string literals of the source, so that
\* String.prototype.includes and the template `${viewName}-view` are computed.
Chars(str) ==
  CASE str = "landing" -> <<"l","a","n","d","i","n","g">>
    [] str = "test" -> <<"t","e","s","t">>
    [] str = "result" -> <<"r","e","s","u","l","t">>
    [] str = "review-answers" -> <<"r","e","v","i","e","w","-","a","n","s","w","e","r","s">>
    [] str = "landing-view" -> <<"l","a","n","d","i","n","g","-","v","i","e","w">>
    [] str = "test-view" -> <<"t","e","s","t","-","v","i","e","w">>
    [] str = "result-view" -> <<"r","e","s","u","l","t","-","v","i","e","w">>
    [] str = "review-answers-view" ->
         <<"r","e","v","i","e","w","-","a","n","s","w","e","r","s","-","v","i","e","w">>
    [] str = "review-panel" -> <<"r","e","v","i","e","w","-","p","a","n","e","l">>
    [] str = "view" -> <<"v","i","e","w">>
    [] str = "-view" -> <<"-","v","i","e","w">>

\* this.views
views == <<"landing", "test", "result", "review-answers">>

ViewNames == {views[i] : i \in 1..Len(views)}

\* the component names loadAllComponents lists, in its order
componentNames ==
  <<"landing-view", "test-view", "result-view", "review-answers-view", "review-panel">>

Names == {componentNames[i] : i \in 1..Len(componentNames)}

\* str.includes(sub)
Includes(str, sub) ==
  LET s == Chars(str)
      t == Chars(sub)
  IN \E i \in 1..(Len(s) - Len(t) + 1) : SubSeq(s, i, i + Len(t) - 1) = t

\* `${viewName}-view`
ViewId(viewName) ==
  CHOOSE n \in Names : Chars(n) = Chars(viewName) \o Chars("-view")

(* ------------------------------ markup --------------------------------- *)
\* Response bodies a fetch may deliver: the empty string, text without any
\* element, a root element without an id attribute, and a root element without
\* an id attribute holding the review controls (#back-to-results-btn and
\* #reviewSidebarList).
Bodies == {"", "text", "<div>", "<div><button/><ul/></div>"}

\* what the server may answer for a component: a failure (network error or
\* a response that is not ok), or a body
Outcomes(name) ==
  {"fail", "", "text"} \cup
  (IF name = "review-answers-view" THEN {"<div><button/><ul/></div>"} ELSE {"<div>"})

\* the answer is the component's own markup
Regular(outcome) == outcome \in {"<div>", "<div><button/><ul/></div>"}

\* JavaScript truthiness of a cache slot: undefined and "" are falsy
NoEntry == "undefined"

Truthy(slot) == slot # NoEntry /\ slot # ""

NoElement == [id |-> "none", active |-> FALSE, fallback |-> FALSE, controls |-> FALSE,
              backBound |-> FALSE, backListeners |-> 0,
              listBound |-> FALSE, listListeners |-> 0]

NewElement(id, controls, fallback) ==
  [id |-> id, active |-> FALSE, fallback |-> fallback, controls |-> controls,
   backBound |-> FALSE, backListeners |-> 0,
   listBound |-> FALSE, listListeners |-> 0]

\* tempDiv.innerHTML = html; tempDiv.firstElementChild
firstElementChild(html) ==
  CASE html = "<div>" -> NewElement("", FALSE, FALSE)
    [] html = "<div><button/><ul/></div>" -> NewElement("", TRUE, FALSE)
    [] OTHER -> NoElement

\* document.getElementById(id): the position of the first element carrying
\* the id, 0 for null
getElementById(dom, id) ==
  IF id = "" \/ ~ \E i \in 1..Len(dom) : dom[i].id = id
  THEN 0
  ELSE CHOOSE i \in 1..Len(dom) : dom[i].id = id /\ \A j \in 1..(i - 1) : dom[j].id # id

(* ------------------------------- state --------------------------------- *)
VARIABLES
  container,        \* document.getElementById('app-container') is an element
  stateManager,     \* this.stateManager is an object (line 10)
  questionManager,  \* this.questionManager is an object (line 11)
  testManager,      \* this.testManager: "none", "basic" (updateQuestionDisplay and
                    \* calculateResults only) or "review" (initializeReview as well)
  currentView,      \* this.currentView
  componentCache,   \* this.componentCache
  reviewManager,    \* this.reviewManager is an object (FALSE: null)
  dom,              \* the elements getElementById can find, in document order
  pending,          \* the fetches in flight, each with the continuation awaiting it
  fetchCount,       \* fetches issued so far
  initRun,          \* the latest init() that had to wait for fetches
  everActivated,    \* some showView has marked a view active
  lastOp            \* what the latest task did

vars == <<container, stateManager, questionManager, testManager, currentView,
          componentCache, reviewManager, dom, pending, fetchCount, initRun,
          everActivated, lastOp>>

\* The part of the state one task reads and writes, with the log of what the
\* task did.
Begin ==
  [dom |-> dom, componentCache |-> componentCache, currentView |-> currentView,
   reviewManager |-> reviewManager, pending |-> pending, fetchCount |-> fetchCount,
   effects |-> <<>>, dispatched |-> <<>>, activated |-> <<>>, loads |-> <<>>,
   stale |-> {}, target |-> "", result |-> "",
   settled |-> "", threw |-> FALSE]

Log(m, call, arg) ==
  [m EXCEPT !.effects = Append(@, [call |-> call, arg |-> arg])]

(* --------------------- initializeReviewManager ------------------------- *)
\* the initialization constructing a manager whatever the handle holds
initializeReviewManager_fresh(m, el) ==
  LET m0 == Log(m, "initializeReviewManager", 0)
  IN IF ~stateManager \/ ~questionManager
     THEN m0
     ELSE LET m1 == [Log(m0, "new ReviewAnswersManager", 0) EXCEPT !.reviewManager = TRUE]
              m2 == Log(m1, "getTestResults", 0)
              m3 == Log(m2, "getQuestions", 0)
          IN Log(m3, "reviewManager.initialize", 0)

\* Lines 134-151. window.app is taken to offer no more than the constructor
\* found there (lines 10-11), so a missing collaborator stays missing.
initializeReviewManager(m, el) ==
  LET m0 == Log(m, "initializeReviewManager", 0)
  IN IF ~stateManager \/ ~questionManager
     THEN m0
     ELSE LET m1 == IF ~m0.reviewManager
                    THEN [Log(m0, "new ReviewAnswersManager", 0)
                            EXCEPT !.reviewManager = TRUE]
                    ELSE m0
              m2 == Log(m1, "getTestResults", 0)
              m3 == Log(m2, "getQuestions", 0)
          IN Log(m3, "reviewManager.initialize", 0)

(* -------------------- initializeReviewAnswersView ----------------------- *)
\* the binding without the dataset guard
BindBack_unguarded(e) ==
  IF e.controls
  THEN [e EXCEPT !.backListeners = @ + 1, !.backBound = TRUE]
  ELSE e

\* lines 101-105
BindBack(e) ==
  IF e.controls /\ ~e.backBound
  THEN [e EXCEPT !.backListeners = @ + 1, !.backBound = TRUE]
  ELSE e

\* lines 108-124 (the binding; the handler is sidebarHandler below)
BindList(e) ==
  IF e.controls /\ ~e.listBound
  THEN [e EXCEPT !.listListeners = @ + 1, !.listBound = TRUE]
  ELSE e

\* Lines 98-131.
initializeReviewAnswersView(m, el) ==
  LET m1 == [m EXCEPT !.dom[el] = BindList(BindBack(@))]
  IN initializeReviewManager(m1, el)

\* initializeComponent is called at line 80 and defined outside this file.
\* Specification 4.2 and 4.5: a per-element initialisation hook, which for the
\* review view binds its controls under the binding flags.
initializeComponent(m, componentName, el) ==
  IF componentName = "review-answers-view"
  THEN initializeReviewAnswersView(m, el)
  ELSE m

(* --------------------------- onViewActivated --------------------------- *)
\* Lines 187-211.
onViewActivated(m, viewName, el) ==
  LET m0 == [m EXCEPT !.dispatched = Append(@, viewName)]
  IN CASE viewName = "test" ->
            IF testManager # "none" THEN Log(m0, "updateQuestionDisplay", 0) ELSE m0
       [] viewName = "result" ->
            IF testManager # "none" THEN Log(m0, "calculateResults", 0) ELSE m0
       [] viewName = "review-answers" ->
            IF testManager = "review"
            THEN Log(m0, "testManager.initializeReview", 0)
            ELSE initializeReviewManager(m0, el)
       [] OTHER -> m0

(* ------------------------------ loadComponent -------------------------- *)
\* the mount appending whatever the document holds
Mount_append(m, e) ==
  [m EXCEPT !.dom = Append(@, e)]

\* lines 73-78: replaceWith in place, or appendChild
Mount(m, e) ==
  LET existingComponent == getElementById(m.dom, e.id)
  IN IF existingComponent # 0
     THEN [m EXCEPT !.dom[existingComponent] = e]
     ELSE [m EXCEPT !.dom = Append(@, e)]

\* where Mount put the element: getElementById does not find an empty id
Mounted(m, e) ==
  IF getElementById(m.dom, e.id) # 0 THEN getElementById(m.dom, e.id) ELSE Len(m.dom) + 1

\* createFallbackView is called at line 90 and defined outside this file.
\* Specification 4.2 and 8: it always yields a mounted placeholder element
\* identified by the component name; the cache is left alone.
createFallbackView(m, componentName) ==
  [Mount(m, NewElement(componentName, FALSE, TRUE)) EXCEPT !.settled = "resolved"]

\* the catch branch rethrowing for every component
loadComponentCatch_rethrow(m, componentName) ==
  [m EXCEPT !.settled = "rejected"]

\* the catch branch recording the failure in the cache
loadComponentCatch_caching(m, componentName) ==
  IF Includes(componentName, "view")
  THEN createFallbackView([m EXCEPT !.componentCache[componentName] = ""], componentName)
  ELSE [m EXCEPT !.componentCache[componentName] = "", !.settled = "rejected"]

\* Lines 86-94: the catch branch.
loadComponentCatch(m, componentName) ==
  IF Includes(componentName, "view")
  THEN createFallbackView(m, componentName)
  ELSE [m EXCEPT !.settled = "rejected"]

\* Lines 57-85: the response is ok and its text is html.
loadComponentOk(m, componentName, html) ==
  LET m1 == [m EXCEPT !.componentCache[componentName] = html, !.settled = "resolved"]
      componentElement == firstElementChild(html)
      e == IF Includes(componentName, "view") /\ componentElement.id = ""
           THEN [componentElement EXCEPT !.id = componentName]
           ELSE componentElement
  IN IF (Includes(componentName, "view") \/ componentName = "review-panel")
        /\ container /\ componentElement # NoElement
     THEN initializeComponent(Mount(m1, e), componentName, Mounted(m1, e))
     ELSE m1

\* Lines 51-95 from the point where the fetch settles: outcome is "fail" (the
\* fetch rejects, or the response is not ok and line 54 throws) or the body.
loadComponentSettle(m, componentName, outcome) ==
  IF outcome = "fail"
  THEN loadComponentCatch(m, componentName)
  ELSE loadComponentOk(m, componentName, outcome)

\* Lines 46-52 up to the fetch: TRUE when the cache answers (lines 47-49).
CacheHit(m, componentName) == Truthy(m.componentCache[componentName])

\* Line 52: issue the fetch; `owner`, `target` and `gen` say which
\* continuation awaits the promise of this loadComponent call.
Fetch(m, componentName, owner, target, gen) ==
  [m EXCEPT
     !.fetchCount = @ + 1,
     !.pending = @ \cup {[id |-> m.fetchCount + 1, name |-> componentName,
                          owner |-> owner, target |-> target, gen |-> gen]},
     !.stale = IF m.componentCache[componentName] # NoEntry
               THEN @ \cup {componentName} ELSE @]

(* -------------------------------- showView ----------------------------- *)
\* lines 156-161
Deactivate(d) ==
  [i \in 1..Len(d) |->
     IF \E k \in 1..Len(views) : getElementById(d, ViewId(views[k])) = i
     THEN [d[i] EXCEPT !.active = FALSE]
     ELSE d[i]]

\* lines 164-168 and 173-177
Activate(m, viewName, el) ==
  onViewActivated([m EXCEPT !.dom[el].active = TRUE,
                            !.currentView = viewName,
                            !.activated = Append(@, viewName),
                            !.result = "activated"],
                  viewName, el)

\* the continuation assigning currentView before looking for the element
showViewRetry_eager(m, viewName) ==
  LET retryView == getElementById(m.dom, ViewId(viewName))
      m0 == [m EXCEPT !.currentView = viewName, !.target = viewName]
  IN IF retryView # 0
     THEN Activate(m0, viewName, retryView)
     ELSE [m0 EXCEPT !.result = "abandoned"]

\* Lines 171-177: the continuation of the miss-recovery load.
showViewRetry(m, viewName) ==
  LET retryView == getElementById(m.dom, ViewId(viewName))
      m0 == [m EXCEPT !.target = viewName]
  IN IF retryView # 0
     THEN Activate(m0, viewName, retryView)
     ELSE [m0 EXCEPT !.result = "abandoned"]

\* Lines 154-185. A miss whose load is answered by the cache runs its
\* continuation in the same task; otherwise the fetch is left pending.
showView(m, viewName) ==
  LET m0 == [m EXCEPT !.dom = Deactivate(@), !.target = viewName]
      targetView == getElementById(m0.dom, ViewId(viewName))
      m1 == [m0 EXCEPT !.loads = Append(@, ViewId(viewName))]
  IN IF targetView # 0
     THEN Activate(m0, viewName, targetView)
     ELSE IF CacheHit(m1, ViewId(viewName))
          THEN showViewRetry(m1, viewName)
          ELSE [Fetch(m1, ViewId(viewName), "show", viewName, 0)
                  EXCEPT !.result = "missed"]

(* ------------------------- sidebar click handler ----------------------- *)
\* Where a click on the sidebar list may land: in the direct child at position
\* pos ("item"), in a list item nested inside that child ("nested"), or on
\* the list itself outside every item ("list"), where `wrapped` says that the
\* list sits inside a list item of an enclosing list.
ClickTargets(n) ==
  {[kind |-> k, pos |-> p, wrapped |-> FALSE] : k \in {"item", "nested"}, p \in 0..(n - 1)}
  \cup {[kind |-> "list", pos |-> -1, wrapped |-> w] : w \in BOOLEAN}

NoClick == [kind |-> "none", pos |-> -1, wrapped |-> FALSE]

NoNode == [li |-> "null", pos |-> -1]

\* sidebarList.children
children(n) == [i \in 1..n |-> [li |-> "child", pos |-> i - 1]]

\* e.target.closest('li'): the nearest list item at or above the target
closest(tgt) ==
  CASE tgt.kind = "item" -> [li |-> "child", pos |-> tgt.pos]
    [] tgt.kind = "nested" -> [li |-> "nested", pos |-> tgt.pos]
    [] tgt.kind = "list" /\ tgt.wrapped -> [li |-> "outer", pos |-> -1]
    [] OTHER -> NoNode

\* Array.prototype.indexOf: the 0-based position of the first occurrence, or -1
indexOf(seq, x) ==
  IF \E i \in 1..Len(seq) : seq[i] = x
  THEN (CHOOSE i \in 1..Len(seq) : seq[i] = x /\ \A j \in 1..(i - 1) : seq[j] # x) - 1
  ELSE -1

\* Number.isNaN: no integer is NaN
NumberIsNaN(x) == x \notin Int

\* Lines 110-122: one run of the listener. A property read on null throws a
\* TypeError, which nothing in the listener catches.
sidebarHandler(m, n, tgt) ==
  LET btn == closest(tgt)
      idx == indexOf(children(n), btn)
  IN IF btn = NoNode \/ NumberIsNaN(idx) \/ m.threw
     THEN m
     ELSE IF ~stateManager
          THEN [m EXCEPT !.threw = TRUE]
          ELSE LET m1 == Log(m, "setReviewCurrentQuestion", idx)
                   m2 == IF m1.reviewManager
                         THEN Log(m1, "loadReviewQuestion", idx)
                         ELSE m1
               IN IF ~m2.reviewManager
                  THEN [m2 EXCEPT !.threw = TRUE]
                  ELSE Log(m2, "closeSidebar", 0)

RECURSIVE sidebarListeners(_, _, _, _)
\* the click runs every listener attached to the list
sidebarListeners(m, k, n, tgt) ==
  IF k = 0 THEN m ELSE sidebarListeners(sidebarHandler(m, n, tgt), k - 1, n, tgt)

RECURSIVE backListeners(_, _)
\* line 103: every listener attached to the button calls showView('result')
backListeners(m, k) ==
  IF k = 0 THEN m ELSE backListeners(showView(Log(m, "showView", 0), "result"), k - 1)

(* ------------------------------- init ---------------------------------- *)
RECURSIVE loadAll(_, _, _)
\* Lines 29-35: the five loadComponent calls, in order; the cached ones
\* resolve without a fetch.
loadAll(m, i, gen) ==
  IF i > Len(componentNames)
  THEN m
  ELSE LET name == componentNames[i]
           m1 == [m EXCEPT !.loads = Append(@, name)]
       IN loadAll(IF CacheHit(m1, name) THEN m1 ELSE Fetch(m1, name, "init", "", gen),
                  i + 1, gen)

\* the join resolving as soon as one load has resolved
PromiseAll_race(waiting) == TRUE

\* Line 38: Promise.all resolves when no load of the batch is outstanding.
PromiseAll(waiting) == waiting = {}

NoRun == [gen |-> 0, status |-> "none", waiting |-> {}, failed |-> {}, issued |-> 0]

(* ------------------------------ actions -------------------------------- *)
Init ==
  /\ container \in BOOLEAN
  /\ stateManager \in BOOLEAN
  /\ questionManager \in BOOLEAN
  /\ testManager \in {"none", "basic", "review"}
  /\ currentView = "landing"
  /\ componentCache = [n \in Names |-> NoEntry]
  /\ reviewManager = FALSE
  /\ dom = <<>>
  /\ pending = {}
  /\ fetchCount = 0
  /\ initRun = NoRun
  /\ everActivated = FALSE
  /\ lastOp = [op |-> "new", arg |-> "", outcome |-> "", owner |-> "",
               viewBefore |-> "landing", target |-> "", result |-> "",
               activated |-> <<>>, dispatched |-> <<>>, effects |-> <<>>,
               loads |-> <<>>, fetched |-> 0, stale |-> {}, settled |-> "",
               threw |-> FALSE, items |-> 0, click |-> NoClick]

\* the state after a task that ended in m
Commit(m, op, arg, outcome, owner, items, click) ==
  /\ dom' = m.dom
  /\ componentCache' = m.componentCache
  /\ currentView' = m.currentView
  /\ reviewManager' = m.reviewManager
  /\ pending' = m.pending
  /\ fetchCount' = m.fetchCount
  /\ everActivated' = (everActivated \/ m.activated # <<>>)
  /\ lastOp' = [op |-> op, arg |-> arg, outcome |-> outcome, owner |-> owner,
                viewBefore |-> currentView, target |-> m.target, result |-> m.result,
                activated |-> m.activated, dispatched |-> m.dispatched,
                effects |-> m.effects, loads |-> m.loads,
                fetched |-> m.fetchCount - fetchCount,
                stale |-> m.stale, settled |-> m.settled, threw |-> m.threw,
                items |-> items, click |-> click]
  /\ UNCHANGED <<container, stateManager, questionManager, testManager>>

\* Lines 17-25 and 28-43: init(). When every component is cached the join
\* resolves in the same task and showView('landing') follows at once.
\* One init() awaits its loads at a time.
InitCall ==
  /\ initRun.status # "loading"
  /\ LET m1 == loadAll(Begin, 1, initRun.gen + 1)
         waiting == {t.name : t \in m1.pending \ pending}
     IN IF waiting = {}
        THEN /\ Commit(showView(m1, "landing"), "init", "", "", "", 0, NoClick)
             /\ initRun' = [initRun EXCEPT !.status = "shown"]
        ELSE /\ initRun.gen < MaxInits
             /\ Commit(m1, "init", "", "", "", 0, NoClick)
             /\ initRun' = [gen |-> initRun.gen + 1, status |-> "loading",
                            waiting |-> waiting, failed |-> {},
                            issued |-> initRun.issued + Cardinality(waiting)]
  /\ fetchCount' - initRun'.issued <= MaxFetches

\* a call of showView(viewName)
ShowViewCall ==
  \E viewName \in ViewNames :
    /\ Commit(showView(Begin, viewName), "showView", viewName, "", "", 0, NoClick)
    /\ UNCHANGED initRun
    /\ fetchCount' - initRun.issued <= MaxFetches

\* One fetch settles; loadComponent resumes and its promise settles, then the
\* continuation awaiting it runs: showView's retry (lines 171-180), or the
\* join of init (lines 38, 20-24).
FetchCompleteWith(t, outcome) ==
  LET m1 == loadComponentSettle([Begin EXCEPT !.pending = @ \ {t}], t.name, outcome)
      joined == t.owner = "init" /\ t.gen = initRun.gen /\ initRun.status = "loading"
      failed == IF outcome = "fail" THEN initRun.failed \cup {t.name} ELSE initRun.failed
      waiting == initRun.waiting \ {t.name}
  IN CASE t.owner = "show" ->
            /\ Commit(IF m1.settled = "resolved"
                      THEN showViewRetry(m1, t.target)
                      ELSE m1,
                      "fetchDone", t.name, outcome, t.owner, 0, NoClick)
            /\ UNCHANGED initRun
       [] joined /\ m1.settled = "rejected" ->
            /\ Commit(m1, "fetchDone", t.name, outcome, t.owner, 0, NoClick)
            /\ initRun' = [initRun EXCEPT !.status = "failed", !.failed = failed]
       [] joined /\ m1.settled = "resolved" /\ ~PromiseAll(waiting) ->
            /\ Commit(m1, "fetchDone", t.name, outcome, t.owner, 0, NoClick)
            /\ initRun' = [initRun EXCEPT !.waiting = waiting, !.failed = failed]
       [] joined /\ m1.settled = "resolved" /\ PromiseAll(waiting) ->
            /\ Commit(showView(m1, "landing"),
                      "fetchDone", t.name, outcome, t.owner, 0, NoClick)
            /\ initRun' = [initRun EXCEPT !.waiting = waiting, !.failed = failed,
                                          !.status = "shown"]
       [] OTHER ->
            /\ Commit(m1, "fetchDone", t.name, outcome, t.owner, 0, NoClick)
            /\ UNCHANGED initRun

\* a call of loadComponent(componentName) whose promise nothing awaits
LoadComponentCall ==
  \E componentName \in Names :
    /\ LET m1 == [Begin EXCEPT !.loads = Append(@, componentName)]
       IN Commit(IF CacheHit(m1, componentName)
                 THEN m1
                 ELSE Fetch(m1, componentName, "load", "", 0),
                 "loadComponent", componentName, "", "", 0, NoClick)
    /\ UNCHANGED initRun
    /\ fetchCount' <= MaxLoads

\* any pending fetch settles, with any answer
FetchComplete ==
  \E t \in pending : \E outcome \in Outcomes(t.name) : FetchCompleteWith(t, outcome)

\* components whose latest fetch did not deliver their markup
Faults ==
  Cardinality({n \in Names : componentCache[n] \in {"", "text"}})
  + Cardinality({i \in 1..Len(dom) : dom[i].fallback})

\* the same, with at most MaxFaults components faulty at a time
BootFetchComplete ==
  \E t \in pending : \E outcome \in Outcomes(t.name) :
    /\ Regular(outcome) \/ Faults < MaxFaults
    /\ FetchCompleteWith(t, outcome)

\* a click on the sidebar list of a mounted element
SidebarClick ==
  \E el \in 1..Len(dom) : \E n \in 0..MaxItems : \E tgt \in ClickTargets(n) :
    /\ dom[el].listListeners > 0
    /\ Commit(sidebarListeners(Begin, dom[el].listListeners, n, tgt),
              "sidebarClick", "", "", "", n, tgt)
    /\ UNCHANGED initRun

\* a click on the 'back to results' control of a mounted element
BackClick ==
  \E el \in 1..Len(dom) :
    /\ dom[el].backListeners > 0
    /\ Commit(backListeners(Begin, dom[el].backListeners),
              "backClick", "", "", "", 0, NoClick)
    /\ UNCHANGED initRun
    /\ fetchCount' - initRun.issued <= MaxFetches

\* a call of initializeReviewAnswersView(element) on the mounted review view
InitializeReviewAnswersViewCall ==
  \E el \in 1..Len(dom) :
    /\ dom[el].id = "review-answers-view"
    /\ Commit(initializeReviewAnswersView(Begin, el),
              "initializeReviewAnswersView", "", "", "", 0, NoClick)
    /\ UNCHANGED initRun

\* Navigation: the views are loaded on demand by showView's miss recovery, with
\* every configuration of collaborators and every answer of the server.
Next ==
  \/ ShowViewCall
  \/ FetchComplete
  \/ SidebarClick
  \/ BackClick
  \/ InitializeReviewAnswersViewCall

Spec == Init /\ [][Next]_vars

\* Bootstrap: init() with navigation around it, every collaborator present.
InitBoot ==
  /\ Init
  /\ container /\ stateManager /\ questionManager /\ testManager = "basic"

NextBoot ==
  \/ InitCall /\ fetchCount' - initRun'.issued <= MaxBootMisses
  \/ ShowViewCall /\ fetchCount' - initRun'.issued <= MaxBootMisses
  \/ BootFetchComplete /\ fetchCount' - initRun'.issued <= MaxBootMisses

SpecBoot == InitBoot /\ [][NextBoot]_vars

\* Loading: loadComponent called for any component, any number of loads of one
\* name in flight, every collaborator present.
InitLoad ==
  /\ Init
  /\ stateManager /\ questionManager /\ testManager = "basic"

NextLoad ==
  \/ LoadComponentCall
  \/ FetchComplete /\ fetchCount' <= MaxLoads

SpecLoad == InitLoad /\ [][NextLoad]_vars

(* ------------------------------ properties ----------------------------- *)
\* the views whose element carries the 'active' marker
ActiveViews ==
  {v \in ViewNames : \E i \in 1..Len(dom) : dom[i].id = ViewId(v) /\ dom[i].active}

\* how often the latest task made the call
Count(call) ==
  Cardinality({i \in 1..Len(lastOp.effects) : lastOp.effects[i].call = call})

\* no element of the document is a fallback placeholder
NoPlaceholder == \A i \in 1..Len(dom) : ~dom[i].fallback

\* C1 Exclusivity: when an activation succeeds, directly or through the retry
\* of the miss recovery, exactly one view element is marked active, and it is
\* the target's (stated for documents whose views all come from their markup).
Exclusivity ==
  (lastOp.activated # <<>> /\ NoPlaceholder) =>
    ActiveViews = {lastOp.activated[Len(lastOp.activated)]}

\* C2 Active-view invariant: between tasks, either no activation has succeeded
\* yet, or exactly one view element is marked active and currentView names it
\* (stated for documents whose views all come from their markup).
ActiveViewInvariant ==
  (everActivated /\ NoPlaceholder) =>
    \E v \in ViewNames : ActiveViews = {v} /\ currentView = v

\* C3 Load idempotence: once a load of a name has succeeded and stored its
\* body, a later loadComponent of that name issues no fetch.
LoadIdempotence == lastOp.stale = {}

\* C4 Abandoned activation: a showView whose target is not mounted, and is
\* still not mounted when its single load has settled, leaves currentView as it
\* was, does not invoke onViewActivated, and has called loadComponent exactly
\* once (in the call itself when the cache answers, in the earlier miss
\* otherwise) and issues no further fetch.
AbandonedActivation ==
  lastOp.result = "abandoned" =>
    /\ currentView = lastOp.viewBefore
    /\ lastOp.dispatched = <<>>
    /\ lastOp.activated = <<>>
    /\ lastOp.op = "fetchDone" /\ lastOp.owner = "show" => lastOp.loads = <<>>
    /\ lastOp.op = "showView" => lastOp.loads = <<ViewId(lastOp.arg)>>
    /\ lastOp.fetched = 0

\* C4 witness: a retry was abandoned after another view had been activated
AbandonedActivationWitness ==
  /\ lastOp.result = "abandoned"
  /\ lastOp.op = "fetchDone"
  /\ everActivated
  /\ lastOp.target # currentView

\* C5 Fallback: a failed fetch for a view component does not reject the load and
\* leaves an element with the component's identifier mounted; the showView
\* awaiting it activates that element, and so does a later showView.
Fallback ==
  /\ (lastOp.op = "fetchDone" /\ lastOp.outcome = "fail" /\ lastOp.arg # "review-panel") =>
       /\ lastOp.settled = "resolved"
       /\ getElementById(dom, lastOp.arg) # 0
       /\ lastOp.owner = "show" =>
            /\ lastOp.activated = <<lastOp.target>>
            /\ currentView = lastOp.target
            /\ dom[getElementById(dom, lastOp.arg)].active
  /\ (/\ lastOp.op = "showView"
      /\ getElementById(dom, ViewId(lastOp.arg)) # 0
      /\ dom[getElementById(dom, ViewId(lastOp.arg))].fallback) =>
       /\ lastOp.result = "activated"
       /\ currentView = lastOp.arg
       /\ dom[getElementById(dom, ViewId(lastOp.arg))].active

\* C5 witness: showView('review-answers') has activated the fallback element
FallbackWitness ==
  /\ lastOp.op = "showView"
  /\ lastOp.arg = "review-answers"
  /\ lastOp.loads = <<>>
  /\ getElementById(dom, "review-answers-view") # 0
  /\ dom[getElementById(dom, "review-answers-view")].fallback
  /\ dom[getElementById(dom, "review-answers-view")].active

\* C6 Non-view failure aborts bootstrap: when the fetch for review-panel fails,
\* its loadComponent rejects, and the init awaiting it fails and never calls
\* showView('landing').
PanelFailureAbortsBootstrap ==
  /\ (lastOp.op = "fetchDone" /\ lastOp.arg = "review-panel" /\ lastOp.outcome = "fail") =>
       lastOp.settled = "rejected"
  /\ "review-panel" \in initRun.failed => initRun.status = "failed"

\* C7 Dispatch correctness, with the state and question collaborators present:
\* each activation invokes the dispatcher once with the activated view; 'test'
\* calls only updateQuestionDisplay, 'result' only calculateResults, 'landing'
\* nothing, and 'review-answers' initializes the review once, through
\* testManager.initializeReview or through the Review Manager, never both; a
\* task that activates no view (a mount) initializes none.
DispatchCorrectness ==
  LET reviewInits == Count("testManager.initializeReview") + Count("reviewManager.initialize")
      refreshes == Count("updateQuestionDisplay")
      results == Count("calculateResults")
  IN (lastOp.op \in {"showView", "fetchDone", "backClick"}
      /\ stateManager /\ questionManager) =>
       /\ lastOp.dispatched = lastOp.activated
       /\ lastOp.activated = <<"test">> => refreshes <= 1 /\ results = 0 /\ reviewInits = 0
       /\ lastOp.activated = <<"result">> => refreshes = 0 /\ results <= 1 /\ reviewInits = 0
       /\ lastOp.activated = <<"landing">> => refreshes = 0 /\ results = 0 /\ reviewInits = 0
       /\ lastOp.activated = <<"review-answers">> =>
            refreshes = 0 /\ results = 0 /\ reviewInits = 1
       /\ lastOp.activated = <<>> => refreshes = 0 /\ results = 0 /\ reviewInits = 0

\* C8 Delegated navigation: with the state collaborator and the Review Manager
\* in place, a click inside the item at position k calls
\* setReviewCurrentQuestion(k), loadReviewQuestion(k) and closeSidebar, and a
\* click outside every item calls none of them.
DelegatedNavigation ==
  (lastOp.op = "sidebarClick" /\ stateManager /\ reviewManager) =>
    IF lastOp.click.kind \in {"item", "nested"}
    THEN lastOp.effects = <<[call |-> "setReviewCurrentQuestion", arg |-> lastOp.click.pos],
                            [call |-> "loadReviewQuestion", arg |-> lastOp.click.pos],
                            [call |-> "closeSidebar", arg |-> 0]>>
    ELSE lastOp.effects = <<>>

\* C9 Rebinding safety: no control of a mounted element carries more than one
\* listener, so a click calls showView('result'), or the navigation handler,
\* at most once.
RebindingSafety ==
  /\ \A i \in 1..Len(dom) : dom[i].backListeners <= 1 /\ dom[i].listListeners <= 1
  /\ lastOp.op = "backClick" => Count("showView") <= 1
  /\ lastOp.op = "sidebarClick" => Count("setReviewCurrentQuestion") <= 1

\* C9 witness: initializeReviewAnswersView was called again on a mounted review
\* view whose controls were bound when it was mounted
RebindingSafetyWitness ==
  /\ lastOp.op = "initializeReviewAnswersView"
  /\ \E i \in 1..Len(dom) :
       /\ dom[i].id = "review-answers-view"
       /\ dom[i].backBound /\ dom[i].backListeners = 1
       /\ dom[i].listBound /\ dom[i].listListeners = 1

\* C10 No unhandled fault: no task of the orchestrator lets an error escape.
NoUnhandledFault == ~lastOp.threw

\* C11 Cache write-once: once the cache holds an entry for a name, no fetch
\* for that name completes any more, so the entry is written at most once.
CacheWriteOnce ==
  [][\A n \in Names :
       componentCache[n] # NoEntry => ~(lastOp'.op = "fetchDone" /\ lastOp'.arg = n)]_vars

MountedUniqueness ==
  [][/\ \A i, j \in 1..Len(dom') : dom'[i].id = dom'[j].id => i = j
     /\ Len(dom) <= Len(dom') /\ Len(dom') <= Len(dom) + 1
     /\ \A i \in 1..Len(dom) : dom'[i].id = dom[i].id
     /\ (lastOp'.op = "fetchDone" /\ Regular(lastOp'.outcome) /\ container) =>
          LET existingComponent == getElementById(dom, lastOp'.arg)
              at == IF existingComponent # 0 THEN existingComponent ELSE Len(dom) + 1
          IN /\ Len(dom') = IF existingComponent # 0 THEN Len(dom) ELSE Len(dom) + 1
             /\ dom'[at].id = lastOp'.arg
             /\ ~dom'[at].fallback]_vars

\* C13 witness: a second load of the panel has put its element in the place of
\* the first one, ahead of an element mounted in between
MountedUniquenessWitness ==
  /\ lastOp.op = "fetchDone"
  /\ lastOp.arg = "review-panel"
  /\ Regular(lastOp.outcome)
  /\ Len(dom) = 2
  /\ dom[1].id = "review-panel"
  /\ \A i \in 1..Len(dom) : ~dom[i].fallback

\* C14 Valid ordinal only: every index a click passes to
\* setReviewCurrentQuestion or loadReviewQuestion is the position of a direct
\* child of the list, in 0..n-1; a click whose nearest list item is nested in a
\* child, or encloses the list, passes none.
ValidOrdinalOnly ==
  lastOp.op = "sidebarClick" =>
    \A i \in 1..Len(lastOp.effects) :
      lastOp.effects[i].call \in {"setReviewCurrentQuestion", "loadReviewQuestion"} =>
        /\ lastOp.effects[i].arg \in 0..(lastOp.items - 1)
        /\ lastOp.click.kind = "item"

\* C15 Recovery succeeds: a showView whose target was not mounted and whose
\* load obtained the fragment (from the cache in the same task, or from a fetch
\* that delivered a body) ends, in the task in which the load settles, with the
\* target's element marked active, currentView naming the target and the
\* dispatcher invoked exactly once, with the target.
RecoverySucceeds ==
  LET cached == lastOp.op = "showView" /\ lastOp.loads # <<>> /\ lastOp.fetched = 0
      fetched == lastOp.op = "fetchDone" /\ lastOp.owner = "show" /\ lastOp.outcome # "fail"
  IN (cached \/ fetched) =>
       /\ lastOp.result = "activated"
       /\ currentView = lastOp.target
       /\ lastOp.target \in ActiveViews
       /\ lastOp.dispatched = <<lastOp.target>>

ReviewManagerSingleton ==
  [][/\ reviewManager => reviewManager' /\ Count("new ReviewAnswersManager")' = 0
     /\ ~reviewManager =>
          /\ Count("new ReviewAnswersManager")' = (IF reviewManager' THEN 1 ELSE 0)
          /\ reviewManager' =>
               /\ stateManager /\ questionManager
               /\ Count("initializeReviewManager")' >= 1
     /\ (~stateManager \/ ~questionManager) =>
          /\ ~reviewManager'
          /\ Count("new ReviewAnswersManager")' = 0
          /\ Count("getTestResults")' = 0
          /\ Count("getQuestions")' = 0
          /\ Count("reviewManager.initialize")' = 0]_vars

\* C17 witness: with the handle set by an earlier task, the review
\* initialization has run again, on an activation, and has constructed nothing
ReviewManagerSingletonWitness ==
  /\ reviewManager
  /\ lastOp.activated = <<"review-answers">>
  /\ Count("reviewManager.initialize") = 1
  /\ Count("new ReviewAnswersManager") = 0

\* C18 Last navigation wins: when a showView(B) has just activated B and the
\* load of an earlier showView(A), A different from B, then settles, the retry
\* of A leaves currentView at B and does not mark A active (stated for
\* documents whose views all come from their markup).
LastNavigationWins ==
  [][(/\ lastOp.op = "showView" /\ lastOp.result = "activated"
      /\ lastOp'.op = "fetchDone" /\ lastOp'.owner = "show"
      /\ lastOp'.target # lastOp.arg
      /\ NoPlaceholder') =>
       /\ currentView' = lastOp.arg
       /\ lastOp'.target \notin ActiveViews']_vars

\* C19 Cache implies mounted: for every view whose fragment the cache would
\* answer a load with, an element with the view's identifier is in the
\* document.
CacheImpliesMounted ==
  \A v \in ViewNames :
    Truthy(componentCache[ViewId(v)]) => getElementById(dom, ViewId(v)) # 0

====
